---------------------------- MODULE Spec2Model ----------------------------
(***************************************************************************)
(* Model of the match-ingestion pipeline of the Brohirim Dota 2 dashboard  *)
(* (src/app.py): the paginated fetcher fetch_all_matches_for_player, the    *)
(* normaliser process_matches and the aggregator load_full_year_data.       *)
(*                                                                         *)
(* Times are integers.  A Python None is the empty sequence <<>> and a      *)
(* present optional value x is <<x>>.  Fields of the raw match and of the   *)
(* normalised record that no property below reads (hero, level,             *)
(* position/role, victory flag, performance score, the record's duration)   *)
(* are left out.                                                            *)
(***************************************************************************)
EXTENDS Integers, Sequences, FiniteSets, TLC

(***************************************************************************)
(* Program constants                                                       *)
(***************************************************************************)

\* PLAYERS (dict, insertion order = order of the keys)
PlayerNames == <<"Andreas", "Magnus", "Casper", "Ahle", "Nicolai">>

PLAYERS ==
    [n \in {PlayerNames[i] : i \in 1..Len(PlayerNames)} |->
        CASE n = "Andreas" -> 3336264
          [] n = "Magnus"  -> 29391237
          [] n = "Casper"  -> 143488868
          [] n = "Ahle"    -> 4222575
          [] n = "Nicolai" -> 74973595]

\* list(PLAYERS.values())
PlayerIds == [i \in 1..Len(PlayerNames) |-> PLAYERS[PlayerNames[i]]]

RosterIds == {PlayerIds[i] : i \in 1..Len(PlayerIds)}

batch_size == 100

max_batches_off_by_one == 5 + 1

max_batches == 5

\* timedelta(days=365), in days; the model's clock counts seconds
YearDelta == 365

SecondsPerDay == 86400

\* @st.cache_data(ttl=3600) of fetch_all_matches_for_player
TtlFetch == 3600

\* @st.cache_data(ttl=7200) of load_full_year_data
TtlTable == 7200

\* keys of lane_map
LaneKeys == {"SAFE_LANE", "MID_LANE", "OFF_LANE", "JUNGLE", "ROAMING"}

None == <<>>

Some(x) == <<x>>

(***************************************************************************)
(* Bounds of the model                                                     *)
(***************************************************************************)

\* offset between a POSIX timestamp and the naive local time of the host
TzShift == 1

\* how many new matches the remote list may gain while one player is paged
MaxShift == 1

\* statistics of a participant in the drawn fetch results
MaxKills == 1
MaxDeaths == 2
MaxAssists == 1

\* how many times the body of load_full_year_data runs
MaxLoads == 3

\* how many hours the tables may stay on screen, all runs together
MaxHours == 3

(***************************************************************************)
(* Helpers                                                                 *)
(***************************************************************************)

Min2(a, b) == IF a <= b THEN a ELSE b

Max2(a, b) == IF a >= b THEN a ELSE b

\* datetime.fromtimestamp(ts): naive local time of a POSIX timestamp
fromtimestamp(ts) == ts + TzShift

\* min(m["startDateTime"] for m in matches), matches non-empty
OldestMatchTime(page) ==
    CHOOSE t \in {page[i].startDateTime : i \in 1..Len(page)} :
        \A i \in 1..Len(page) : t <= page[i].startDateTime

InWindow(m, cutoff) == fromtimestamp(m.startDateTime) >= cutoff

ValidMatches_strict(page, cutoff) ==
    SelectSeq(page, LAMBDA m : fromtimestamp(m.startDateTime) > cutoff)

\* [m for m in matches if datetime.fromtimestamp(m["startDateTime"]) >= cutoff_date]
ValidMatches(page, cutoff) == SelectSeq(page, LAMBDA m : InWindow(m, cutoff))

OldestBeforeCutoff_never(page, cutoff) == FALSE

\* oldest_match_date < cutoff_date
OldestBeforeCutoff(page, cutoff) == fromtimestamp(OldestMatchTime(page)) < cutoff

(***************************************************************************)
(* process_matches                                                         *)
(*                                                                         *)
(* A raw match is [id, startDateTime, durationSeconds, players]; a          *)
(* participant is [steamAccountId, isRadiant, kills, deaths, assists, lane] *)
(* with durationSeconds, deaths and lane optional (the source's fields are  *)
(* nullable).  The kda of a record is kept in hundredths:                   *)
(* round(x, 2) = kda / 100.                                                 *)
(***************************************************************************)

\* list(PLAYERS.values()).index(v): first position of v, 0 when absent (ValueError)
ValuesIndex(v) ==
    IF v \in RosterIds
    THEN CHOOSE i \in 1..Len(PlayerIds) :
            PlayerIds[i] = v /\ \A j \in 1..(i - 1) : PlayerIds[j] # v
    ELSE 0

\* list(PLAYERS.keys())[list(PLAYERS.values()).index(v)]
NameOfId(v) == PlayerNames[ValuesIndex(v)]

RECURSIVE JoinNames(_)
\* ", ".join(names), names non-empty
JoinNames(names) ==
    IF Len(names) = 1 THEN names[1]
    ELSE names[1] \o ", " \o JoinNames(Tail(names))

\* ", ".join(names) if names else None
JoinOrNone(names) == IF names = <<>> THEN None ELSE Some(JoinNames(names))

\* next((p for p in players if p["steamAccountId"] == steam_id), None)
PlayerData(players, steam_id) ==
    LET hits == SelectSeq(players, LAMBDA p : p.steamAccountId = steam_id)
    IN  IF hits = <<>> THEN None ELSE Some(hits[1])

Teammates_with_owner(players, pd, steam_id) ==
    SelectSeq(players, LAMBDA p : p.isRadiant = pd.isRadiant)

\* teammates: same side as the owner, another account
Teammates(players, pd, steam_id) ==
    SelectSeq(players,
              LAMBDA p : p.isRadiant = pd.isRadiant /\ p.steamAccountId # steam_id)

\* brohirim_teammates = [t for t in teammates if t["steamAccountId"] in all_steam_ids]
BrohirimTeammates(players, pd, steam_id, all_steam_ids) ==
    SelectSeq(Teammates(players, pd, steam_id),
              LAMBDA t : t.steamAccountId \in all_steam_ids)

FlooredDeaths_plus_one(d) == d + 1

\* deaths = max(player_data["deaths"], 1)
FlooredDeaths(d) == Max2(d, 1)

\* round(num / den, 2) in hundredths, ties to the even hundredth
Round2(num, den) ==
    LET q == (100 * num) \div den
        r == (100 * num) % den
    IN  IF 2 * r < den THEN q
        ELSE IF 2 * r > den THEN q + 1
        ELSE IF q % 2 = 0 THEN q ELSE q + 1

\* lane_map.get(lane, "Unknown")
LaneName(lane) ==
    IF lane = None \/ lane[1] \notin LaneKeys THEN "Unknown"
    ELSE CASE lane[1] = "SAFE_LANE" -> "Safe Lane"
           [] lane[1] = "MID_LANE"  -> "Mid Lane"
           [] lane[1] = "OFF_LANE"  -> "Off Lane"
           [] lane[1] = "JUNGLE"    -> "Jungle"
           [] lane[1] = "ROAMING"   -> "Roaming"

\* same_lane_teammates
SameLaneTeammates(brohirim, lane) ==
    SelectSeq(brohirim, LAMBDA t : t.lane = lane /\ lane # None)

\* the body of the loop raises a TypeError: None / 60 for every match, before the
\* owner is looked up, and max(None, 1) for a match that lists the owner
MatchRaises(match, steam_id) ==
    LET pd == PlayerData(match.players, steam_id)
    IN  \/ match.durationSeconds = None
        \/ (pd # None /\ pd[1].deaths = None)

\* the record the loop body appends for a match that lists the owner
ProcessMatch(match, steam_id, name, all_steam_ids) ==
    LET pd       == PlayerData(match.players, steam_id)[1]
        brohirim == BrohirimTeammates(match.players, pd, steam_id, all_steam_ids)
        friends  == [i \in 1..Len(brohirim) |-> NameOfId(brohirim[i].steamAccountId)]
        deaths   == FlooredDeaths(pd.deaths[1])
        lane     == pd.lane
        same     == SameLaneTeammates(brohirim, lane)
        partners == [i \in 1..Len(same) |-> NameOfId(same[i].steamAccountId)]
    IN  [ player_name  |-> name,
          match_id     |-> match.id,
          match_date   |-> fromtimestamp(match.startDateTime),
          kills        |-> pd.kills,
          deaths       |-> pd.deaths[1],
          assists      |-> pd.assists,
          kda          |-> Round2(pd.kills + pd.assists, deaths),
          lane         |-> LaneName(lane),
          is_party     |-> Len(brohirim) > 0,
          party_with   |-> JoinOrNone(friends),
          lane_partner |-> JoinOrNone(partners) ]

ListsOwner_never(match, steam_id) == FALSE

\* if not player_data: continue
ListsOwner(match, steam_id) == PlayerData(match.players, steam_id) # None

\* process_matches: raised, or the list it returns (one record per match that
\* lists the owner, in the order of the matches)
process_matches(ms, steam_id, name, all_steam_ids) ==
    IF \E i \in 1..Len(ms) : MatchRaises(ms[i], steam_id)
    THEN [raised |-> TRUE, data |-> <<>>]
    ELSE LET own == SelectSeq(ms, LAMBDA m : ListsOwner(m, steam_id))
         IN  [raised |-> FALSE,
              data   |-> [i \in 1..Len(own) |->
                            ProcessMatch(own[i], steam_id, name, all_steam_ids)]]

(***************************************************************************)
(* The remote match source                                                 *)
(*                                                                         *)
(* The list the remote source holds for the player being paged is a feed   *)
(* [len, fresh, order, lineup, shift]: len matches when paging began, the   *)
(* first `fresh` of them inside the window, in date order ("desc") or not   *)
(* ("mixed"), and `shift` matches played since paging began, which the      *)
(* source puts at the head of the list.  Position b of the list as it was   *)
(* when paging began is base position b; a match played since has b <= 0.   *)
(***************************************************************************)

\* an account outside the roster
StrangerId == PLAYERS["Andreas"] + 1

Participant(acc, side, k, d, a, lane) ==
    [steamAccountId |-> acc, isRadiant |-> side, kills |-> k, deaths |-> d,
     assists |-> a, lane |-> lane]

\* the roster account after `owner` in the roster
NextRosterId(owner) == PlayerIds[(ValuesIndex(owner) % Len(PlayerIds)) + 1]

\* start timestamp of base position b
StartOf(f, cutoff, b) ==
    IF f.order = "mixed" /\ b % 3 = 2
    THEN cutoff - TzShift - 1 - b
    ELSE cutoff - TzShift + (f.fresh - b)

\* participants of base position b in the list of account `owner`
Lineup(f, owner, b) ==
    LET me == Participant(owner, TRUE, b % 3, Some(b % 2), 1, Some("MID_LANE"))
    IN  CASE f.lineup = "absent" ->
               << Participant(StrangerId, TRUE, 0, Some(0), 0, None) >>
          [] f.lineup = "corrupt" /\ b = 1 ->
               << Participant(owner, TRUE, 1, None, 1, None) >>
          [] OTHER ->
               CASE b % 3 = 0 -> << me >>
                 [] b % 3 = 1 -> << me, Participant(NextRosterId(owner), TRUE, 0,
                                                    Some(1), 0, Some("MID_LANE")) >>
                 [] OTHER     -> << Participant(StrangerId, TRUE, 0, Some(0), 0, None),
                                    me,
                                    Participant(NextRosterId(owner), FALSE, 0,
                                                Some(1), 0, Some("MID_LANE")) >>

\* the match at position j of the list as it is now
RemoteMatch(f, owner, cutoff, j) ==
    LET b == j - f.shift
    IN  [id |-> 1000 - b, startDateTime |-> StartOf(f, cutoff, b),
         durationSeconds |-> Some(1800), players |-> Lineup(f, owner, b)]

\* matches(request: {take, skip}) on the list as it is now
Page(f, owner, cutoff, sk, take) ==
    LET n == Max2(0, Min2(take, (f.len + f.shift) - sk))
    IN  [i \in 1..n |-> RemoteMatch(f, owner, cutoff, sk + i)]

Feed(l, k, o, u) == [len |-> l, fresh |-> k, order |-> o, lineup |-> u, shift |-> 0]

\* the lists the remote source may hold when paging of a player begins
Feeds ==
    {Feed(0, 0, "desc", "party"), Feed(3, 0, "desc", "party"),
     Feed(3, 2, "desc", "party"), Feed(3, 600, "desc", "party"),
     Feed(100, 600, "desc", "party"), Feed(101, 600, "desc", "party"),
     Feed(501, 150, "desc", "party"), Feed(501, 600, "desc", "party"),
     Feed(101, 600, "mixed", "party"),
     Feed(3, 2, "desc", "absent"), Feed(3, 2, "desc", "corrupt")}

\* the lists of at most two pages among them that the liveness check draws
LiveFeeds == {f \in Feeds : f.len <= 3} \cup {Feed(101, 600, "desc", "party")}

NoFeed == Feed(0, 0, "desc", "party")

\* how one page request may end
FailureKinds == {"http_error", "graphql_errors", "exception"}

ResponseKinds == FailureKinds \cup {"ok", "no_matches"}

\* the selections of the sidebar the model draws
Selections ==
    {<<"Andreas">>, <<"Casper">>, <<"Magnus", "Andreas">>}

\* datetime.now() at the start of a run
NowChoices == {1000}

(***************************************************************************)
(* State                                                                   *)
(***************************************************************************)

VARIABLES
    selected_players,   \* argument of load_full_year_data
    run_pc,             \* idle, fetching, normalizing, pacing, done, aborted, shown
    idx,                \* position in selected_players (1-based)
    cutoff_date,        \* load_full_year_data's cutoff_date
    all_data,           \* load_full_year_data's all_data; the merged table when done
    matches,            \* load_full_year_data's matches (last fetch result)
    status_log,         \* per player: what the run reported for it
    f_pc,               \* fetch_all_matches_for_player: idle, loop, return
    batch_num,          \* loop counter
    skip,
    all_matches,
    page,               \* the fetcher's matches (last page received)
    resp,               \* how the last page request ended
    requests,           \* the page requests sent to the remote source in this run
    feed,               \* the remote source's list for the player being paged
                        \* (NoFeed while no player is being paged)
    now,                \* the wall clock, in seconds
    loads,              \* how many times the body of load_full_year_data has run
    trigger,            \* what started this run of the script
    df_cache,           \* the cache of load_full_year_data
    fetch_cache,        \* the cache of fetch_all_matches_for_player
    df_full             \* main's df_full: the table the last read returned

runVars == <<selected_players, run_pc, idx, cutoff_date, all_data, matches, status_log>>

fetchVars == <<f_pc, batch_num, skip, all_matches, page, resp>>

cacheVars == <<now, loads, trigger, df_cache, fetch_cache, df_full>>

vars == <<selected_players, run_pc, idx, cutoff_date, all_data, matches, status_log,
          f_pc, batch_num, skip, all_matches, page, resp, requests, feed,
          now, loads, trigger, df_cache, fetch_cache, df_full>>

player_name == selected_players[idx]

steam_id == PLAYERS[player_name]

\* all_steam_ids = [PLAYERS[p] for p in selected_players]
AllSteamIds(sel) == {PLAYERS[sel[i]] : i \in 1..Len(sel)}

(***************************************************************************)
(* st.cache_data: a cache is a set of entries [key, value, stored_at], at   *)
(* most one per key; an entry is returned until ttl seconds after it was    *)
(* stored.                                                                  *)
(***************************************************************************)

\* datetime.now() - timedelta(days=365)
Cutoff(t) == t - YearDelta * SecondsPerDay

Expired(e, ttl, t) == t >= e.stored_at + ttl

Store(cache, key, value, t) ==
    {e \in cache : e.key # key} \cup {[key |-> key, value |-> value, stored_at |-> t]}

FetchKey_no_cutoff(id, name, cutoff) == <<id, name, 0>>

\* the arguments of fetch_all_matches_for_player, which key its cache
FetchKey(id, name, cutoff) == <<id, name, cutoff>>

\* the entries of the fetch cache a call with this key returns
FetchEntries(key, t) ==
    {e \in fetch_cache : e.key = key /\ ~Expired(e, TtlFetch, t)}

\* the entries of the table cache a call with this selection returns
TableEntries(sel, t) ==
    {e \in df_cache : e.key = sel /\ ~Expired(e, TtlTable, t)}

\* load_full_year_data(selected_players) would return a cached table
FreshTable == TableEntries(selected_players, now) # {}

Init ==
    /\ selected_players \in Selections
    /\ run_pc = "idle"
    /\ idx = 1
    /\ cutoff_date = 0
    /\ all_data = <<>>
    /\ matches = <<>>
    /\ status_log = <<>>
    /\ f_pc = "idle"
    /\ batch_num = 0
    /\ skip = 0
    /\ all_matches = <<>>
    /\ page = <<>>
    /\ resp = "none"
    /\ requests = <<>>
    /\ feed = NoFeed
    /\ now \in NowChoices
    /\ loads = 0
    /\ trigger = "first"
    /\ df_cache = {}
    /\ fetch_cache = {}
    /\ df_full = None

(***************************************************************************)
(* fetch_all_matches_for_player                                            *)
(***************************************************************************)

\* the call: a cached result for these arguments is returned at once; otherwise
\* the body runs (the locals of lines 62-65) and the remote source holds one of
\* the lists F
BeginFetchFrom(F) ==
    /\ run_pc = "fetching"
    /\ f_pc = "idle"
    /\ LET hits == FetchEntries(FetchKey(steam_id, player_name, cutoff_date), now)
       IN  IF hits # {}
           THEN /\ \E e \in hits : matches' = e.value
                /\ run_pc' = "normalizing"
                /\ UNCHANGED <<selected_players, idx, cutoff_date, all_data,
                               status_log, fetchVars, feed>>
           ELSE /\ \E f \in F : feed' = f
                /\ f_pc' = "loop"
                /\ batch_num' = 0
                /\ skip' = 0
                /\ all_matches' = <<>>
                /\ page' = <<>>
                /\ resp' = "none"
                /\ UNCHANGED runVars
    /\ UNCHANGED <<requests, cacheVars>>

BeginFetch == BeginFetchFrom(Feeds)

OnFailure_retry == "loop"

\* break after a failed request
OnFailure == "return"

\* the for loop over range(max_batches), after pass n (0-based) ran to its end
AfterFullPage(n) == IF n + 1 < max_batches THEN "loop" ELSE "return"

\* one pass of the loop: a page request and what the code does with the response
FetchBatch ==
    /\ run_pc = "fetching"
    /\ f_pc = "loop"
    /\ requests' = Append(requests,
                          [steamAccountId |-> steam_id, take |-> batch_size, skip |-> skip])
    /\ \E kind \in ResponseKinds :
          /\ resp' = kind
          /\ \/ /\ kind \in FailureKinds
                /\ f_pc' = OnFailure
                /\ UNCHANGED <<page, all_matches, skip, batch_num>>
             \/ /\ kind \notin FailureKinds
                /\ LET pg == IF kind = "ok"
                             THEN Page(feed, steam_id, cutoff_date, skip, batch_size)
                             ELSE <<>>
                   IN  /\ page' = pg
                       /\ IF Len(pg) = 0
                          THEN /\ f_pc' = "return"
                               /\ UNCHANGED <<all_matches, skip, batch_num>>
                          ELSE /\ all_matches' = all_matches \o ValidMatches(pg, cutoff_date)
                               /\ IF OldestBeforeCutoff(pg, cutoff_date)
                                     \/ Len(pg) < batch_size
                                  THEN /\ f_pc' = "return"
                                       /\ UNCHANGED <<skip, batch_num>>
                                  ELSE /\ skip' = skip + batch_size
                                       /\ batch_num' = batch_num + 1
                                       /\ f_pc' = AfterFullPage(batch_num)
    /\ UNCHANGED <<runVars, feed, cacheVars>>

\* return all_matches; the result is cached under the arguments of the call
FetchReturn ==
    /\ run_pc = "fetching"
    /\ f_pc = "return"
    /\ matches' = all_matches
    /\ run_pc' = "normalizing"
    /\ f_pc' = "idle"
    /\ batch_num' = 0
    /\ skip' = 0
    /\ all_matches' = <<>>
    /\ page' = <<>>
    /\ resp' = "none"
    /\ feed' = NoFeed
    /\ fetch_cache' = Store(fetch_cache, FetchKey(steam_id, player_name, cutoff_date),
                            all_matches, now)
    /\ UNCHANGED <<selected_players, idx, cutoff_date, all_data, status_log, requests,
                   now, loads, trigger, df_cache, df_full>>

\* the remote source: the player plays a match while the fetcher sleeps between pages
NewMatchPlayed ==
    /\ run_pc = "fetching"
    /\ f_pc = "loop"
    /\ batch_num > 0
    /\ feed.shift < MaxShift
    /\ feed' = [feed EXCEPT !.shift = @ + 1]
    /\ UNCHANGED <<runVars, fetchVars, requests, cacheVars>>

(***************************************************************************)
(* load_full_year_data                                                     *)
(***************************************************************************)

\* the call of load_full_year_data when no cached table is returned: its body
\* starts (lines 248-250)
StartRun ==
    /\ run_pc = "idle"
    /\ ~FreshTable
    /\ loads < MaxLoads
    /\ loads' = loads + 1
    /\ cutoff_date' = Cutoff(now)
    /\ all_data' = <<>>
    /\ idx' = 1
    /\ run_pc' = "fetching"
    /\ UNCHANGED <<selected_players, matches, status_log, fetchVars, requests, feed,
                   now, trigger, df_cache, fetch_cache, df_full>>

OnRaise_abort == "aborted"

MergeRows_prepend(all, new) == new \o all

MergeRows_replace(all, new) == new

\* all_data.extend(processed)
MergeRows(all, new) == all \o new

\* except Exception: report, then go on with the loop
OnRaise == "pacing"

\* the account ids handed to process_matches
NormaliseIds(sel) == AllSteamIds(sel)

\* if matches: process_matches ... else: warn; an exception is caught
Normalise ==
    /\ run_pc = "normalizing"
    /\ LET r == process_matches(matches, steam_id, player_name,
                                NormaliseIds(selected_players))
       IN  IF matches = <<>>
           THEN /\ status_log' = Append(status_log,
                      [player |-> player_name, kind |-> "none", fetched |-> 0, rows |-> 0])
                /\ run_pc' = "pacing"
                /\ UNCHANGED all_data
           ELSE IF r.raised
           THEN /\ status_log' = Append(status_log,
                      [player |-> player_name, kind |-> "error",
                       fetched |-> Len(matches), rows |-> 0])
                /\ run_pc' = OnRaise
                /\ UNCHANGED all_data
           ELSE /\ status_log' = Append(status_log,
                      [player |-> player_name, kind |-> "ok",
                       fetched |-> Len(matches), rows |-> Len(r.data)])
                /\ run_pc' = "pacing"
                /\ all_data' = MergeRows(all_data, r.data)
    /\ UNCHANGED <<selected_players, idx, cutoff_date, matches, fetchVars, requests, feed,
                   cacheVars>>

\* progress, time.sleep(1), then the next player or the end of the loop
\* (df = all_data)
NextPlayer ==
    /\ run_pc = "pacing"
    /\ now' = now + 1
    /\ IF idx < Len(selected_players)
       THEN idx' = idx + 1 /\ run_pc' = "fetching"
       ELSE idx' = idx /\ run_pc' = "done"
    /\ UNCHANGED <<selected_players, cutoff_date, all_data, matches, status_log,
                   fetchVars, requests, feed, loads, trigger, df_cache, fetch_cache,
                   df_full>>

Next ==
    \/ StartRun
    \/ BeginFetch
    \/ FetchBatch
    \/ NewMatchPlayed
    \/ FetchReturn
    \/ Normalise
    \/ NextPlayer

Spec == Init /\ [][Next]_vars

(***************************************************************************)
(* process_matches on drawn fetch results: the run stands at one player    *)
(* (the players before it fetched nothing), and the fetch returns any list *)
(* of a bounded set of in-window matches.                                   *)
(***************************************************************************)

Lanes == {None, Some("UNKNOWN"), Some("MID_LANE"), Some("SAFE_LANE")}

OwnerEntries(owner) ==
    {Participant(owner, s, k, d, a, l) :
        s \in BOOLEAN, k \in 0..MaxKills,
        d \in {None} \cup {Some(n) : n \in 0..MaxDeaths},
        a \in 0..MaxAssists, l \in Lanes}

OtherAccounts(owner) ==
    ({PLAYERS["Andreas"], PLAYERS["Magnus"], PLAYERS["Casper"]} \ {owner})
    \cup {StrangerId}

OtherEntries(owner) ==
    {Participant(acc, s, 0, Some(1), 0, l) :
        acc \in OtherAccounts(owner), s \in BOOLEAN, l \in Lanes}

DrawnLineups(owner) ==
    {<<o>> : o \in OwnerEntries(owner)}
    \cup {<<x>> : x \in OtherEntries(owner)}
    \cup {<<o, x>> : o \in OwnerEntries(owner), x \in OtherEntries(owner)}
    \cup {<<x, o, y>> :
            o \in {Participant(owner, TRUE, 0, Some(0), 0, l) :
                      l \in {Some("UNKNOWN"), Some("MID_LANE")}},
            x \in {e \in OtherEntries(owner) : e.lane # None},
            y \in {e \in OtherEntries(owner) : e.lane # None}}

DrawnMatch(i, cutoff, ps) ==
    [id |-> i, startDateTime |-> cutoff - TzShift, durationSeconds |-> Some(1800),
     players |-> ps]

\* the same match with "durationSeconds": null
NoDuration(m) == [m EXCEPT !.durationSeconds = None]

\* lineups of the two-match lists: the owner listed, absent, or with null deaths
PairLineups(owner) ==
    {<<Participant(owner, TRUE, 1, d, 0, None)>> : d \in {None, Some(0), Some(1)}}
    \cup {<<Participant(StrangerId, TRUE, 0, Some(1), 0, None)>>}

DrawnResults(owner, cutoff) ==
    {<<DrawnMatch(1, cutoff, ps)>> : ps \in DrawnLineups(owner)}
    \cup {<<DrawnMatch(1, cutoff, p1), DrawnMatch(2, cutoff, p2)>> :
            p1 \in PairLineups(owner), p2 \in PairLineups(owner)}
    \cup {<<DrawnMatch(1, cutoff, p1), NoDuration(DrawnMatch(2, cutoff, p2))>> :
            p1 \in PairLineups(owner), p2 \in PairLineups(owner)}

FirstRequest(name) == [steamAccountId |-> PLAYERS[name], take |-> batch_size, skip |-> 0]

InitPM ==
    /\ selected_players \in Selections
    /\ idx \in 1..Len(selected_players)
    /\ run_pc = "fetching"
    /\ \E t \in NowChoices :
          /\ cutoff_date = Cutoff(t)
          /\ now = t + (idx - 1)
          /\ fetch_cache =
                {[key |-> FetchKey(PLAYERS[selected_players[i]], selected_players[i],
                                   Cutoff(t)),
                  value |-> <<>>, stored_at |-> t + (i - 1)] : i \in 1..(idx - 1)}
    /\ loads = 1
    /\ trigger = "first"
    /\ df_cache = {}
    /\ df_full = None
    /\ all_data = <<>>
    /\ matches = <<>>
    /\ status_log = [i \in 1..(idx - 1) |->
            [player |-> selected_players[i], kind |-> "none", fetched |-> 0, rows |-> 0]]
    /\ f_pc = "idle"
    /\ batch_num = 0
    /\ skip = 0
    /\ all_matches = <<>>
    /\ page = <<>>
    /\ resp = "none"
    /\ requests = [i \in 1..(idx - 1) |-> FirstRequest(selected_players[i])]
    /\ feed = NoFeed

\* matches = fetch_all_matches_for_player(...), returning a drawn list
DrawFetch ==
    /\ run_pc = "fetching"
    /\ f_pc = "idle"
    /\ \E ms \in DrawnResults(steam_id, cutoff_date) :
          /\ matches' = ms
          /\ fetch_cache' = Store(fetch_cache,
                                  FetchKey(steam_id, player_name, cutoff_date), ms, now)
    /\ run_pc' = "normalizing"
    /\ requests' = Append(requests, FirstRequest(player_name))
    /\ UNCHANGED <<selected_players, idx, cutoff_date, all_data, status_log,
                   fetchVars, feed, now, loads, trigger, df_cache, df_full>>

NextPM ==
    \/ DrawFetch
    \/ Normalise

SpecPM == InitPM /\ [][NextPM]_vars

(***************************************************************************)
(* The run under fairness: the code is sequential and runs on (every call  *)
(* returns, every request ends within its timeout of 20 s, every sleep     *)
(* ends), so a step of the program that stays possible is taken.  The      *)
(* remote source is under no obligation.                                   *)
(***************************************************************************)

BeginFetchLive == BeginFetchFrom(LiveFeeds)

ProgramStep ==
    \/ StartRun
    \/ BeginFetchLive
    \/ FetchBatch
    \/ FetchReturn
    \/ Normalise
    \/ NextPlayer

NextLive ==
    \/ ProgramStep
    \/ NewMatchPlayed

LiveSpec == Init /\ [][NextLive]_vars /\ WF_vars(ProgramStep)

(***************************************************************************)
(* main over several runs of the script: each run reads the table through   *)
(* load_full_year_data (line 411) and shows it; a widget, the refresh       *)
(* button or the quick-refresh button starts the next run.  The clock moves *)
(* while a table is shown and while the aggregator sleeps.  An expired      *)
(* entry is never returned, so the model drops it when the clock passes its *)
(* expiry.                                                                  *)
(***************************************************************************)

\* the lists the remote source may hold in these runs
CacheFeeds == {Feed(0, 0, "desc", "party"), Feed(3, 2, "desc", "party")}

\* how long a table may stay on screen before the next interaction
TickChoices == {TtlFetch, TtlTable}

BeginFetchCached == BeginFetchFrom(CacheFeeds)

\* the script starts over: the locals of the last run are gone
Restart ==
    /\ run_pc' = "idle"
    /\ idx' = 1
    /\ cutoff_date' = 0
    /\ all_data' = <<>>
    /\ matches' = <<>>
    /\ status_log' = <<>>
    /\ requests' = <<>>
    /\ UNCHANGED <<fetchVars, feed, now, loads>>

\* load_full_year_data returns df: the table is cached under the selection and
\* main shows it
ReturnTable ==
    /\ run_pc = "done"
    /\ df_cache' = Store(df_cache, selected_players, all_data, now)
    /\ df_full' = Some(all_data)
    /\ run_pc' = "shown"
    /\ UNCHANGED <<selected_players, idx, cutoff_date, all_data, matches, status_log,
                   fetchVars, requests, feed, now, loads, trigger, fetch_cache>>

\* load_full_year_data returns the cached table of the selection
ReadCached ==
    /\ run_pc = "idle"
    /\ FreshTable
    /\ \E e \in TableEntries(selected_players, now) : df_full' = Some(e.value)
    /\ run_pc' = "shown"
    /\ UNCHANGED <<selected_players, idx, cutoff_date, all_data, matches, status_log,
                   fetchVars, requests, feed, now, loads, trigger, df_cache,
                   fetch_cache>>

\* a widget of the sidebar changes (here: the multiselect) and the script reruns
Rerun ==
    /\ run_pc = "shown"
    /\ selected_players' \in Selections
    /\ trigger' = "rerun"
    /\ Restart
    /\ UNCHANGED <<df_cache, fetch_cache, df_full>>

\* "Opdater data": st.cache_data.clear(); st.rerun()
Refresh ==
    /\ run_pc = "shown"
    /\ df_cache' = {}
    /\ fetch_cache' = {}
    /\ trigger' = "refresh"
    /\ Restart
    /\ UNCHANGED <<selected_players, df_full>>

AfterQuickRefresh_all(tables) == {}

\* what fetch_all_matches_for_player.clear() leaves of the table cache
AfterQuickRefresh(tables) == tables

\* "Quick refresh": fetch_all_matches_for_player.clear(); st.rerun()
QuickRefresh ==
    /\ run_pc = "shown"
    /\ fetch_cache' = {}
    /\ df_cache' = AfterQuickRefresh(df_cache)
    /\ trigger' = "quick"
    /\ Restart
    /\ UNCHANGED <<selected_players, df_full>>

\* time passes while the table is on screen
Tick ==
    /\ run_pc = "shown"
    /\ \E d \in TickChoices :
          /\ \A t \in NowChoices :
                now + d <= t + MaxHours * TtlFetch + MaxLoads * Len(PlayerNames)
          /\ now' = now + d
          /\ df_cache' = {e \in df_cache : ~Expired(e, TtlTable, now + d)}
          /\ fetch_cache' = {e \in fetch_cache : ~Expired(e, TtlFetch, now + d)}
    /\ UNCHANGED <<runVars, fetchVars, requests, feed, loads, trigger, df_full>>

NextCache ==
    \/ StartRun
    \/ BeginFetchCached
    \/ FetchBatch
    \/ FetchReturn
    \/ Normalise
    \/ NextPlayer
    \/ ReturnTable
    \/ ReadCached
    \/ Rerun
    \/ Refresh
    \/ QuickRefresh
    \/ Tick

CacheSpec == Init /\ [][NextCache]_vars

TypeOK ==
    /\ run_pc \in {"idle", "fetching", "normalizing", "pacing", "done", "aborted",
                  "shown"}
    /\ trigger \in {"first", "rerun", "refresh", "quick"}
    /\ loads \in 0..MaxLoads
    /\ f_pc \in {"idle", "loop", "return"}
    /\ idx \in 1..Len(selected_players)
    /\ resp \in ResponseKinds \cup {"none"}

(***************************************************************************)
(* Properties                                                              *)
(***************************************************************************)

\* the page requests of this run for one account, in the order they were sent
PlayerRequests(acc) == SelectSeq(requests, LAMBDA r : r.steamAccountId = acc)

\* a match starts before the cutoff
BeforeCutoff(m) == fromtimestamp(m.startDateTime) < cutoff_date

\* the player at idx has been normalised and its matches produced records
Normalised ==
    /\ run_pc = "pacing"
    /\ Len(status_log) = idx
    /\ status_log[idx].kind = "ok"

\* the records the run appended for the player at idx
CurrentRows ==
    SubSeq(all_data, Len(all_data) - status_log[idx].rows + 1, Len(all_data))

\* a match lists the player at idx as a participant
ListsPlayer(m) == \E k \in 1..Len(m.players) : m.players[k].steamAccountId = steam_id

\* the fetched matches of the player at idx that list it as a participant
OwnerMatches == SelectSeq(matches, ListsPlayer)

\* the owner's participant entry in a match that lists it: the first with its account
OwnerOf(m) ==
    LET k == CHOOSE k \in 1..Len(m.players) :
                /\ m.players[k].steamAccountId = steam_id
                /\ \A j \in 1..(k - 1) : m.players[j].steamAccountId # steam_id
    IN  m.players[k]

\* C1: when the remote list is in date order (most recent first), does not change
\* while it is paged and no request fails, the fetcher returns exactly the matches
\* among the first 500 of the list whose start time is at or after the cutoff, in
\* the order of the list.
C1_FetchReturnsWindow ==
    (run_pc = "fetching" /\ f_pc = "return" /\ resp = "ok"
        /\ feed.order = "desc" /\ feed.shift = 0)
    => LET first500 == Page(feed, steam_id, cutoff_date, 0, 500)
       IN  all_matches =
             SelectSeq(first500, LAMBDA m : fromtimestamp(m.startDateTime) >= cutoff_date)

\* a second page that straddles the cutoff has been filtered, and paging stopped
C1_Witness ==
    /\ run_pc = "fetching" /\ f_pc = "return" /\ resp = "ok"
    /\ feed.order = "desc" /\ feed.shift = 0
    /\ Len(PlayerRequests(steam_id)) = 2
    /\ Len(page) = 100
    /\ Len(all_matches) > 100 /\ Len(all_matches) < 200

\* C2 (safety part): whatever the remote source answers, the requests of one call
\* are at most 5, each with take = 100 and skip = 100 x (number of earlier
\* requests of the call).
C2_RequestsBounded ==
    \A i \in 1..Len(selected_players) :
        LET rs == PlayerRequests(PLAYERS[selected_players[i]])
        IN  /\ Len(rs) <= 5
            /\ \A k \in 1..Len(rs) : rs[k].take = 100 /\ rs[k].skip = 100 * (k - 1)

\* C2: the bound on the requests, and every call of the fetcher returns: while the
\* loop goes on it has sent one request per pass and made fewer than 5 passes, and
\* a call that has not returned always has a step to take.
C2_BoundedAndTerminates ==
    /\ C2_RequestsBounded
    /\ (run_pc = "fetching" /\ f_pc = "loop")
        => (batch_num < 5 /\ Len(PlayerRequests(steam_id)) = batch_num)
    /\ (run_pc = "fetching") => ENABLED (BeginFetch \/ FetchBatch \/ FetchReturn)

\* five full pages were requested and the loop ended at the ceiling
C2_Witness ==
    /\ run_pc = "fetching" /\ f_pc = "return"
    /\ Len(PlayerRequests(steam_id)) = 5
    /\ Len(page) = 100 /\ resp = "ok"

\* C3: once the last page received holds a match older than the cutoff, no further
\* page is requested; and neither the accumulated list nor the returned list ever
\* holds a match that starts before the cutoff.
C3_StopsAtCutoff ==
    /\ [][(\E i \in 1..Len(page) : BeforeCutoff(page[i])) => requests' = requests]_vars
    /\ [](/\ \A i \in 1..Len(all_matches) : ~BeforeCutoff(all_matches[i])
          /\ \A i \in 1..Len(matches) : ~BeforeCutoff(matches[i]))

\* a full page that holds matches on both sides of the cutoff
C3_Witness ==
    /\ run_pc = "fetching" /\ f_pc = "return"
    /\ Len(page) = 100
    /\ \E i \in 1..Len(page) : BeforeCutoff(page[i])
    /\ \E i \in 1..Len(page) : ~BeforeCutoff(page[i])
    /\ all_matches # <<>>

\* C4: a page request that ends in a non-200 status, an errors payload or an
\* exception leaves the accumulated matches as they were and ends the paging; no
\* request follows it for that player; the fetcher returns the accumulated matches;
\* and a run that is done has sent a request for every selected player.
C4_FailureEndsPaging ==
    /\ [][/\ (resp' \in FailureKinds /\ requests' # requests)
              => (all_matches' = all_matches /\ f_pc' = "return")
          /\ (resp \in FailureKinds) => requests' = requests
          /\ (run_pc = "fetching" /\ run_pc' = "normalizing") => matches' = all_matches
          /\ \A i \in 1..(idx - 1) :
                PlayerRequests(PLAYERS[selected_players[i]])'
                    = PlayerRequests(PLAYERS[selected_players[i]])]_vars
    /\ [](run_pc = "done"
            => \A i \in 1..Len(selected_players) :
                  PlayerRequests(PLAYERS[selected_players[i]]) # <<>>)

\* a request failed after a successful page, for a player that is not the last
C4_Witness ==
    /\ run_pc = "fetching" /\ f_pc = "return"
    /\ resp \in FailureKinds
    /\ all_matches # <<>>
    /\ idx < Len(selected_players)

\* C5: is_party of a record is true exactly when another account of the roster is
\* a participant of the match on the owner's side.
C5_PartyIffRosterTeammate ==
    Normalised =>
        LET rows == CurrentRows
            own  == OwnerMatches
        IN  \A i \in 1..Len(rows) :
                LET m == own[i]
                IN  rows[i].is_party
                    <=> \E k \in 1..Len(m.players) :
                            /\ m.players[k].steamAccountId \in RosterIds \ {steam_id}
                            /\ m.players[k].isRadiant = OwnerOf(m).isRadiant

\* C6: a record whose lane label is "Unknown" has no lane partner.
C6_NoPartnerOnUnknownLane ==
    Normalised =>
        LET rows == CurrentRows
        IN  \A i \in 1..Len(rows) :
                rows[i].lane = "Unknown" => rows[i].lane_partner = None

\* C7: the merged table of a finished run holds at most one row for each pair
\* (player name, match id).
C7_OneRowPerPlayerAndMatch ==
    run_pc = "done"
    => Cardinality({<<all_data[i].player_name, all_data[i].match_id>> :
                        i \in 1..Len(all_data)}) = Len(all_data)

\* C8: the kda of a record is (kills + assists) / max(deaths, 1) of the owner's
\* entry rounded to two decimals (kept in hundredths), exactly kills + assists when
\* deaths = 0, and the record keeps the owner's kills, deaths and assists;
\* kills = 5, assists = 3, deaths = 0 gives 8.0.
C8_Kda ==
    /\ Round2(5 + 3, FlooredDeaths(0)) = 800
    /\ Normalised =>
        LET rows == CurrentRows
            own  == OwnerMatches
        IN  /\ Len(rows) = Len(own)
            /\ \A i \in 1..Len(rows) :
                  LET o   == OwnerOf(own[i])
                      r   == rows[i]
                      d   == o.deaths[1]
                      den == IF d > 1 THEN d ELSE 1
                      err == 100 * (o.kills + o.assists) - r.kda * den
                  IN  /\ r.kills = o.kills /\ r.deaths = d /\ r.assists = o.assists
                      /\ 2 * err <= den /\ -2 * err <= den
                      /\ d = 0 => r.kda = 100 * (o.kills + o.assists)

\* a record of a match the owner ended without a death, with a kill or an assist
C8_Witness ==
    /\ Normalised
    /\ LET rows == CurrentRows
       IN  \E i \in 1..Len(rows) :
              /\ rows[i].deaths = 0
              /\ rows[i].kills + rows[i].assists > 0
              /\ rows[i].kda = 100 * (rows[i].kills + rows[i].assists)

\* C9: every run reaches done; it moves idle -> fetching -> normalizing -> pacing ->
\* (fetching for the next player | done) and nowhere else; and when it is done it
\* has reported on every selected player, in the order of the selection.
C9_RunReachesDone ==
    /\ <>(run_pc = "done")
    /\ [][(<<run_pc, run_pc'>> \in
            {<<"idle", "fetching">>, <<"fetching", "fetching">>,
             <<"fetching", "normalizing">>, <<"normalizing", "pacing">>,
             <<"pacing", "fetching">>, <<"pacing", "done">>})]_vars
    /\ [](run_pc = "done"
            => [i \in 1..Len(status_log) |-> status_log[i].player] = selected_players)

\* normalising the first player raised, and the run went on to the second and ended
C9_Witness ==
    /\ run_pc = "done"
    /\ Len(selected_players) = 2
    /\ status_log[1].kind = "error"
    /\ status_log[2].kind = "ok"

RowsOf(name) == SelectSeq(all_data, LAMBDA r : r.player_name = name)

\* position of a name in the selection (the multiselect holds no name twice)
SelIndex(name) ==
    CHOOSE i \in 1..Len(selected_players) : selected_players[i] = name

\* C11: the merged table only grows at its end, and only when a player is
\* normalised: the rows added then carry that player's name and are, in order, the
\* fetched matches that list the player; so the names of the table follow the
\* order of the selection (no interleaving) and each player's rows follow the
\* order in which the fetcher returned the matches.
C11_RowsInSelectionThenFetchOrder ==
    /\ [][/\ (run_pc = "normalizing" /\ all_data' # all_data)
              => LET own == SelectSeq(matches, ListsPlayer)
                     new == SubSeq(all_data', Len(all_data) + 1, Len(all_data'))
                 IN  /\ all_data' = all_data \o new
                     /\ Len(new) = Len(own)
                     /\ \A i \in 1..Len(new) :
                           /\ new[i].player_name = player_name
                           /\ new[i].match_id = own[i].id
                           /\ new[i].match_date = fromtimestamp(own[i].startDateTime)
          /\ (run_pc \notin {"normalizing", "idle"}) => all_data' = all_data]_vars
    /\ [](\A i \in 1..(Len(all_data) - 1) :
            SelIndex(all_data[i].player_name) <= SelIndex(all_data[i + 1].player_name))

\* a finished run of two players whose fetches both returned several matches
C11_Witness ==
    /\ run_pc = "done"
    /\ Len(selected_players) = 2
    /\ Len(RowsOf(selected_players[1])) >= 2
    /\ Len(RowsOf(selected_players[2])) >= 2
    /\ all_data[1].match_id # all_data[2].match_id

\* the player at idx has been through the try block of the aggregator's loop
Reported ==
    /\ run_pc = "pacing"
    /\ Len(status_log) = idx

\* C13: a match that does not list the owner gives no record and no
\* exception, a match that lists the owner gives exactly one record: the call does
\* not raise when no fetched match lists the owner, and the number of records is
\* the number of fetched matches that list the owner.
C13_AbsentNoRowPresentOneRow ==
    Reported =>
        /\ (\A i \in 1..Len(matches) : ~ListsPlayer(matches[i]))
              => status_log[idx].kind # "error"
        /\ status_log[idx].rows
              = Cardinality({i \in 1..Len(matches) : ListsPlayer(matches[i])})

\* what the code does in C13's case: the call raises exactly when some fetched match has no duration
\* (whether or not it lists the owner) or lists the owner with no deaths count, and
\* then no record of the player reaches the table; otherwise the records are, in
\* order, one per fetched match that lists the owner and none for the others, so a
\* player absent from every fetched match contributes no row.
C13_OneRowPerOwnedMatchUnlessRaised ==
    Reported =>
        LET rows == CurrentRows
            own  == SelectSeq(matches, ListsPlayer)
            bad  == \E i \in 1..Len(matches) :
                        \/ matches[i].durationSeconds = None
                        \/ (ListsPlayer(matches[i]) /\ OwnerOf(matches[i]).deaths = None)
        IN  /\ status_log[idx].kind = "error" <=> bad
            /\ bad => (rows = <<>> /\ status_log[idx].rows = 0)
            /\ ~bad => /\ Len(rows) = Len(own)
                       /\ \A i \in 1..Len(rows) :
                             /\ rows[i].match_id = own[i].id
                             /\ rows[i].player_name = player_name
            /\ (~bad /\ own = <<>>) => (rows = <<>> /\ status_log[idx].kind # "error")

\* two matches were fetched, one lists the owner and one does not: one record
OneOfTwoListsOwner ==
    /\ Reported
    /\ status_log[idx].kind = "ok"
    /\ Len(matches) = 2
    /\ ~ListsPlayer(matches[1]) /\ ListsPlayer(matches[2])
    /\ Len(all_data) = 1
    /\ all_data[1].match_id = matches[2].id

\* the records the code derives from one player's fetched matches and the
\* selection alone (none when the fetch returned nothing or normalising raised)
RowsFrom(ms, name, sel) ==
    LET r == process_matches(ms, PLAYERS[name], name, AllSteamIds(sel))
    IN  IF ms = <<>> \/ r.raised THEN <<>> ELSE r.data

\* C14: within a run over one selection, the rows of a player in the merged table
\* are a function of that player's own fetched matches and the selection: the
\* table holds no row of a player before the player is normalised, normalising
\* adds exactly RowsFrom(the player's matches), and no step taken for another
\* player (whatever its fetch returns: pages, an empty page or a failure, and
\* whatever its normalisation does) changes them.  Two runs over the same
\* selection that fetch the same matches for the player hence hold the same rows.
C14_RowsIndependentOfOthers ==
    /\ [][\A k \in 1..Len(selected_players) :
            LET p == selected_players[k]
            IN  IF run_pc = "idle" THEN RowsOf(p)' = <<>>
                ELSE IF run_pc = "normalizing" /\ idx = k
                THEN RowsOf(p)' = RowsFrom(matches, p, selected_players)
                ELSE RowsOf(p)' = RowsOf(p)]_vars
    /\ [](\A k \in 1..Len(selected_players) :
            (run_pc \in {"fetching", "normalizing"} /\ k >= idx)
                => RowsOf(selected_players[k]) = <<>>)

\* a finished run of two players: the fetch of the first returned nothing, and a
\* row of the second names the first as party member
C14_Witness ==
    /\ run_pc = "done"
    /\ Len(selected_players) = 2
    /\ status_log[1].kind = "none"
    /\ \E i \in 1..Len(all_data) :
          /\ all_data[i].player_name = selected_players[2]
          /\ all_data[i].party_with = Some(selected_players[1])

\* the lists of at most two names drawn from a set (a drawn match lists at most
\* two participants besides the owner)
NameLists(S) ==
    {<<>>} \cup {<<a>> : a \in S} \cup {<<a, b>> : a \in S, b \in S}

\* the names in a list
NamesIn(l) == {l[i] : i \in 1..Len(l)}

\* C15: in every record, is_party is true exactly when party_with is present;
\* party_with and lane_partner are comma-joined lists of roster names other than
\* the owner's, every name of lane_partner being a name of party_with (so a
\* present lane_partner implies is_party); and every account id that passes the
\* teammate filter is an id of the roster, so its name is always found.
C15_PartyFieldsConsistent ==
    /\ AllSteamIds(selected_players) \subseteq RosterIds
    /\ \A a \in AllSteamIds(selected_players) : ValuesIndex(a) \in 1..Len(PlayerNames)
    /\ Normalised =>
        LET rows   == CurrentRows
            others == {PlayerNames[k] : k \in 1..Len(PlayerNames)} \ {player_name}
        IN  \A i \in 1..Len(rows) :
                /\ rows[i].is_party <=> rows[i].party_with # None
                /\ rows[i].lane_partner # None => rows[i].is_party
                /\ \E s \in NameLists(others) :
                      /\ rows[i].party_with = JoinOrNone(s)
                      /\ \E t \in NameLists(NamesIn(s)) :
                            rows[i].lane_partner = JoinOrNone(t)

\* a record with a party member who is also the lane partner
C15_Witness ==
    /\ Normalised
    /\ LET rows == CurrentRows
       IN  \E i \in 1..Len(rows) :
              /\ rows[i].is_party
              /\ rows[i].party_with # None
              /\ rows[i].lane_partner = rows[i].party_with

\* the names of the players whose rows a table holds
NamesOf(table) == {table[i].player_name : i \in 1..Len(table)}

\* C12: a read of the merged table finds a cached table only while an entry for
\* the selection is less than 7200 s old, and the refresh button leaves no entry in
\* either cache; a read that finds none runs the whole aggregation: it starts from
\* an empty table, no call of the fetcher is answered from the fetch cache (each
\* returns what it accumulated from the pages of this call), and the table it
\* returns is the one built in this run, after at least one page request for every
\* selected player.
C12_RefetchAfterExpiryOrRefresh ==
    /\ [](run_pc = "idle" =>
            /\ FreshTable <=> \E e \in df_cache :
                                 e.key = selected_players /\ now < e.stored_at + 7200
            /\ trigger = "refresh" => (df_cache = {} /\ fetch_cache = {})
            /\ requests = <<>>)
    /\ [](run_pc = "fetching" /\ f_pc = "idle"
            => FetchEntries(FetchKey(steam_id, player_name, cutoff_date), now) = {})
    /\ [][/\ (run_pc = "idle" /\ ~FreshTable)
              => (run_pc' = "fetching" /\ all_data' = <<>> /\ requests' = <<>>)
          /\ (run_pc = "fetching" /\ run_pc' = "normalizing")
              => (f_pc = "return" /\ matches' = all_matches)
          /\ (run_pc = "done" /\ run_pc' = "shown")
              => /\ df_full' = Some(all_data)
                 /\ \A i \in 1..Len(selected_players) :
                       PlayerRequests(PLAYERS[selected_players[i]]) # <<>>]_vars

\* the table of this selection was shown, its entry expired, and the next read has
\* run the aggregation again and is about to return a table with rows
C12_Witness ==
    /\ run_pc = "done"
    /\ trigger = "rerun"
    /\ loads = 2
    /\ df_full # None
    /\ df_full[1] # <<>>
    /\ NamesOf(df_full[1]) = {selected_players[i] : i \in 1..Len(selected_players)}
    /\ all_data # <<>>
    /\ \A i \in 1..Len(selected_players) :
          PlayerRequests(PLAYERS[selected_players[i]]) # <<>>

=============================================================================
